---- MODULE Spec2Model ----
(***************************************************************************)
(* Model of bin/cli-meli-accounts/index.js: the interactive CLI that       *)
(* resolves the client owner account (with a single login+register         *)
(* recovery), then runs the menu loop that dispatches the account          *)
(* actions, and finally releases the login session and the db connection.  *)
(*                                                                         *)
(* One action of the model is one awaited call of the program together     *)
(* with everything the program does until its next await.  The             *)
(* collaborators (db, cliLoginFlow, createMeliTestAccount,                 *)
(* getOwnerAccount, prompt) answer nondeterministically: each call either  *)
(* resolves or rejects.  db.isConnected() and prompt() are taken to        *)
(* resolve always, and a resolved getOwnerAccount() to expose a non-null   *)
(* clientOwnerData.                                                        *)
(***************************************************************************)
EXTENDS Integers, Sequences, FiniteSets, TLC

\* ------------------------------------------------------------------ bounds
\* menu iterations explored
MaxIter == 2

\* ------------------------------------------------------------ value domains
Null == "null"
\* clientOwnerData values a resolved getOwnerAccount() may expose
OwnerVals == {"owner1", "owner2"}
\* nicknames of the profiles cliLoginFlow.run() may yield
Nicknames == {"nickA", "nickB"}
\* rejection reasons of the collaborators
Reasons == {"not found"}
\* rejection reasons of getOwnerAccount()
OwnerReasons == {"not found", "timeout"}
\* choice.action values prompt() may resolve with: the three handlers, a tag
\* that is no property at all, and two names every object literal inherits
\* from Object.prototype
Tags == {"newTestAccount", "existingAccount", "exit", "garbage", "toString",
         "hasOwnProperty"}
Tokens == "tokens"

VARIABLES
  pc,               \* position of the single thread of control
  programUser,      \* program.user: TRUE iff -u|--user was given
  clientOwnerData,  \* module-level let clientOwnerData
  isFirstLogin,     \* const isFirstLogin of main (FALSE until line 139)
  isDbConnected,    \* const isDbConnected of the current iteration
  choice,           \* choice.action of the current iteration
  loggedUser,       \* profile nickname returned by the last login
  dbOpen,           \* the backing store connection is open
  loginSession,     \* "none" | "ready" | "cleaned"
  accounts,         \* nicknames with a record in the Account collection
  iter,             \* menu presentations so far
  exitCode,         \* Null while running, else the process status
  log               \* history of calls, console output and evaluations

vars == <<pc, programUser, clientOwnerData, isFirstLogin, isDbConnected,
          choice, loggedUser, dbOpen, loginSession, accounts, iter, exitCode,
          log>>

\* A history entry: operation, position it was issued from, outcome, value
\* (returned value, reason or message) and the arguments of the call.
Ev(op, at, ok, val, args) ==
  [op |-> op, at |-> at, ok |-> ok, val |-> val, args |-> args]

Init ==
  /\ pc = "start"
  /\ programUser \in BOOLEAN
  /\ clientOwnerData = Null
  /\ isFirstLogin = FALSE
  /\ isDbConnected = FALSE
  /\ choice = Null
  /\ loggedUser = Null
  /\ dbOpen = FALSE
  /\ loginSession = "none"
  /\ accounts \in {{}, {"nickA"}}
  /\ iter = 0
  /\ exitCode = Null
  /\ log = <<>>

\* ---------------------------------------------------------- exit statuses
\* process.exit() without an argument (line 16), and main returning
ExitOk == "0"
\* process.exit(1) of the top-level catch (line 161)
ExitError == "1"

\* ------------------------------------------------------------ control flow
\* The own properties of the options object literal (lines 63-86).
OwnHandlers == {"newTestAccount", "existingAccount", "exit"}
\* Properties options inherits from Object.prototype: options[tag] finds them
\* too, since the literal is an ordinary object.
InheritedProps == {"toString", "hasOwnProperty"}

\* options[choice.action] (line 145): what the property lookup yields.
Lookup(tag) ==
  IF tag \in OwnHandlers THEN "handler"
  ELSE IF tag \in InheritedProps THEN "inherited"
  ELSE "undefined"

\* while (choice.action !== 'exit') (line 151)
LoopContinues(tag) == tag # "exit"

\* Where control is after the body of an iteration ends, normally, by
\* continue or through a handler's catch: the while condition, then either
\* the next db.isConnected() (line 143) or exit() (line 153).
AfterAction(tag) == IF LoopContinues(tag) THEN "probe" ELSE "clean"

\* Positions inside the try blocks of the two account handlers.
HandlerPositions == {"genTest", "hLogin", "hRegister"}
\* Positions of setup() and of what it calls.
SetupPositions == {"connect", "loginSetup", "resolve1", "recoverLogin",
                   "recoverRegister", "resolve2"}

\* OnThrow with the recovery left out: a rejected first getOwnerAccount()
\* is simply retried.
OnThrow_RetryWithoutRecovery(at, tag) ==
  IF at = "resolve1" THEN "resolve2"
  ELSE IF at \in HandlerPositions THEN AfterAction(tag)
  ELSE "crashed"

\* OnThrow with the recovery made a loop: the second getOwnerAccount() is
\* inside the try as well.
OnThrow_RetryLoop(at, tag) ==
  IF at \in {"resolve1", "resolve2"} THEN "recoverLogin"
  ELSE IF at \in HandlerPositions THEN AfterAction(tag)
  ELSE "crashed"

\* OnThrow with generateTestAccount swallowing its error.
OnThrow_ProvisionSwallowed(at, tag) ==
  IF at = "resolve1" THEN "recoverLogin"
  ELSE IF at = "genTest" THEN "hLogin"
  ELSE IF at \in HandlerPositions THEN AfterAction(tag)
  ELSE "crashed"

\* OnThrow with the handlers' try/catch missing.
OnThrow_HandlerRethrows(at, tag) ==
  IF at = "resolve1" THEN "recoverLogin" ELSE "crashed"

\* OnThrow with retrieveClientOwnerData swallowing the second rejection.
OnThrow_FatalSwallowed(at, tag) ==
  IF at = "resolve1" THEN "recoverLogin"
  ELSE IF at = "resolve2" THEN "firstLogin"
  ELSE IF at \in HandlerPositions THEN AfterAction(tag)
  ELSE "crashed"

\* OnThrow with the recovery's own failures caught by the catch they are
\* thrown in: control falls through to the second getOwnerAccount().
OnThrow_RecoveryFallsThrough(at, tag) ==
  IF at = "resolve1" THEN "recoverLogin"
  ELSE IF at \in {"recoverLogin", "recoverRegister"} THEN "resolve2"
  ELSE IF at \in HandlerPositions THEN AfterAction(tag)
  ELSE "crashed"

\* Where control goes when the call awaited at position `at` rejects:
\* the catch of retrieveClientOwnerData (line 100) takes the first
\* getOwnerAccount() only; the catch of a handler (lines 70, 79) takes what
\* its try block throws; everything else reaches the top-level catch (line
\* 159), which ends the process.
OnThrow(at, tag) ==
  IF at = "resolve1" THEN "recoverLogin"
  ELSE IF at \in HandlerPositions THEN AfterAction(tag)
  ELSE "crashed"

\* OnReturn with the recovery run whether or not the first getOwnerAccount()
\* rejected.
OnReturn_AlwaysRecover(at, tag) ==
  CASE at = "connect" -> "loginSetup"
    [] at = "loginSetup" -> "resolve1"
    [] at = "resolve1" -> "recoverLogin"
    [] at = "recoverLogin" -> "recoverRegister"
    [] at = "recoverRegister" -> "resolve2"
    [] at = "resolve2" -> "firstLogin"
    [] at = "genTest" -> "hLogin"
    [] at = "hLogin" -> "hRegister"
    [] at = "hRegister" -> AfterAction(tag)
    [] at = "clean" -> "disconnect"
    [] at = "disconnect" -> "done"

\* OnReturn with newTestAccount not awaiting the rest of its steps: the
\* handler returns to the loop once the test account is created.
OnReturn_ReturnsEarly(at, tag) ==
  CASE at = "connect" -> "loginSetup"
    [] at = "loginSetup" -> "resolve1"
    [] at = "resolve1" -> "firstLogin"
    [] at = "recoverLogin" -> "recoverRegister"
    [] at = "recoverRegister" -> "resolve2"
    [] at = "resolve2" -> "firstLogin"
    [] at = "genTest" -> AfterAction(tag)
    [] at = "hLogin" -> "hRegister"
    [] at = "hRegister" -> AfterAction(tag)
    [] at = "clean" -> "disconnect"
    [] at = "disconnect" -> "done"

\* OnReturn with the recovery's registration left out.
OnReturn_RegisterSkipped(at, tag) ==
  CASE at = "connect" -> "loginSetup"
    [] at = "loginSetup" -> "resolve1"
    [] at = "resolve1" -> "firstLogin"
    [] at = "recoverLogin" -> "resolve2"
    [] at = "recoverRegister" -> "resolve2"
    [] at = "resolve2" -> "firstLogin"
    [] at = "genTest" -> "hLogin"
    [] at = "hLogin" -> "hRegister"
    [] at = "hRegister" -> AfterAction(tag)
    [] at = "clean" -> "disconnect"
    [] at = "disconnect" -> "done"

\* Where control goes when the call awaited at `at` resolves (the order of
\* the statements of setup, retrieveClientOwnerData, the handlers and exit).
OnReturn(at, tag) ==
  CASE at = "connect" -> "loginSetup"
    [] at = "loginSetup" -> "resolve1"
    [] at = "resolve1" -> "firstLogin"
    [] at = "recoverLogin" -> "recoverRegister"
    [] at = "recoverRegister" -> "resolve2"
    [] at = "resolve2" -> "firstLogin"
    [] at = "genTest" -> "hLogin"
    [] at = "hLogin" -> "hRegister"
    [] at = "hRegister" -> AfterAction(tag)
    [] at = "clean" -> "disconnect"
    [] at = "disconnect" -> "done"

\* ------------------------------------------------------------- messages
\* new Error(...) of doLoginFlow (line 35)
LoginFailMsg == "Could not complete authentication. Reason: "
\* TestAccountFailMsg with the message of another stage.
TestAccountFailMsg_OtherStage == "Could not complete authentication. Reason: "
\* new Error(...) of generateTestAccount (line 47)
TestAccountFailMsg == "Whoops, could not create a test account: "
\* new Error(...) of registerAccount (line 57)
RegisterFailMsg == "Problem registering account: "
\* the warning of retrieveClientOwnerData (lines 102-104)
OwnerWarnMsg == "Could not retrieve client owner account data. Reason: "
\* line 160
UnexpectedMsg == "unexpected error: "

\* The console.error of whichever catch takes an error with message
\* <<text, reason>> thrown at `at`: the handler prints the message (lines
\* 71, 80), the top level prints 'unexpected error' and the error.
Report(at, tag, text, reason) ==
  IF OnThrow(at, tag) = "crashed"
  THEN Ev("console.error", at, TRUE, UnexpectedMsg, <<text, reason>>)
  ELSE Ev("console.error", at, TRUE, text, <<reason>>)

\* The state after the call `ev` awaited at pc rejected with an error the
\* program turns into message <<text, reason>>.
Throw(ev, text, reason) ==
  LET target == OnThrow(pc, choice) IN
  /\ pc' = target
  /\ exitCode' = IF target = "crashed" THEN ExitError ELSE exitCode
  /\ log' = log \o <<ev, Report(pc, choice, text, reason)>>

\* ------------------------------------------------------------ the registry
\* RegisterArgs with a test-account flag passed along.
RegisterArgs_Flagged(profile, tokens) == <<profile, tokens, "isTestAccount">>

\* Account.register(profile, tokens): the arguments the program passes
\* (line 55).
RegisterArgs(profile, tokens) == <<profile, tokens>>

\* account.isNewAccount(): no record of the nickname existed.
IsNewAccount(nick, store) == nick \notin store
\* account.isTestAccount: the registry classifies the profile itself.
TestNicknames == {"nickB"}
IsTestAccount(nick) == nick \in TestNicknames

\* VerbMsg with the two verbs exchanged.
VerbMsg_Swapped(isNew) == IF isNew THEN "Updated existing" ELSE "Registered new"

\* line 59
VerbMsg(isNew) == IF isNew THEN "Registered new" ELSE "Updated existing"
\* line 60
KindMsg(isTest) == IF isTest THEN "test" ELSE ""

\* registerAccount({profile, tokens}) (lines 52-61): Account.register
\* resolves and the confirmation is printed, or it rejects and the error
\* is wrapped and thrown.
RegisterAccountCall ==
  LET args == RegisterArgs(loggedUser, Tokens) IN
  \/ /\ accounts' = accounts \cup {loggedUser}
     /\ pc' = OnReturn(pc, choice)
     /\ exitCode' = exitCode
     /\ log' = log \o
          << Ev("register", pc, TRUE, loggedUser, args),
             Ev("console.log", pc, TRUE,
                VerbMsg(IsNewAccount(loggedUser, accounts)),
                <<KindMsg(IsTestAccount(loggedUser)), loggedUser>>) >>
  \/ \E r \in Reasons :
       /\ accounts' = accounts
       /\ Throw(Ev("register", pc, FALSE, r, args), RegisterFailMsg, r)

\* ------------------------------------------------------------------ startup
\* ParseArgs with the process.exit() of line 16 missing: the usage is
\* printed and the program goes on.
ParseArgs_NoExit ==
  /\ pc = "start"
  /\ pc' = "connect"
  /\ exitCode' = exitCode
  /\ log' = log \o <<IF programUser
                      THEN Ev("console.log", pc, TRUE, "Welcome!", <<>>)
                      ELSE Ev("console.error", pc, TRUE, "usage", <<>>)>>
  /\ UNCHANGED <<programUser, clientOwnerData, isFirstLogin, isDbConnected,
                 choice, loggedUser, dbOpen, loginSession, accounts, iter>>

\* lines 13-17: without -u the usage is printed and the process exits.
ParseArgs ==
  /\ pc = "start"
  /\ IF programUser
     THEN /\ pc' = "connect"
          /\ exitCode' = exitCode
          /\ log' = log \o <<Ev("console.log", pc, TRUE, "Welcome!", <<>>)>>
     ELSE /\ pc' = "exited"
          /\ exitCode' = ExitOk
          /\ log' = log \o <<Ev("console.error", pc, TRUE, "usage", <<>>)>>
  /\ UNCHANGED <<programUser, clientOwnerData, isFirstLogin, isDbConnected,
                 choice, loggedUser, dbOpen, loginSession, accounts, iter>>

\* await db.connect() (line 120)
setup_dbConnect ==
  /\ pc = "connect"
  /\ \/ /\ dbOpen' = TRUE
        /\ pc' = OnReturn(pc, choice)
        /\ exitCode' = exitCode
        /\ log' = log \o <<Ev("db.connect", pc, TRUE, Null, <<>>)>>
     \/ \E r \in Reasons :
          /\ dbOpen' = dbOpen
          /\ Throw(Ev("db.connect", pc, FALSE, r, <<>>), "", r)
  /\ UNCHANGED <<programUser, clientOwnerData, isFirstLogin, isDbConnected,
                 choice, loggedUser, loginSession, accounts, iter>>

\* await cliLoginFlow.setup() (line 121)
setup_cliLoginFlowSetup ==
  /\ pc = "loginSetup"
  /\ \/ /\ loginSession' = "ready"
        /\ pc' = OnReturn(pc, choice)
        /\ exitCode' = exitCode
        /\ log' = log \o <<Ev("login.setup", pc, TRUE, Null, <<>>)>>
     \/ \E r \in Reasons :
          /\ loginSession' = loginSession
          /\ Throw(Ev("login.setup", pc, FALSE, r, <<>>), "", r)
  /\ UNCHANGED <<programUser, clientOwnerData, isFirstLogin, isDbConnected,
                 choice, loggedUser, dbOpen, accounts, iter>>

\* retrieveClientOwnerData, first getOwnerAccount() (lines 98-104, 111):
\* resolved, its clientOwnerData is stored; rejected, the warning is
\* printed and the login flow is started.
retrieveClientOwnerData_first ==
  /\ pc = "resolve1"
  /\ \/ \E v \in OwnerVals :
          /\ clientOwnerData' = v
          /\ pc' = OnReturn(pc, choice)
          /\ exitCode' = exitCode
          /\ log' = log \o <<Ev("getOwnerAccount", pc, TRUE, v, <<>>)>>
     \/ \E r \in OwnerReasons :
          LET target == OnThrow(pc, choice) IN
          /\ clientOwnerData' = clientOwnerData
          /\ pc' = target
          /\ exitCode' = IF target = "crashed" THEN ExitError ELSE exitCode
          /\ log' = log \o
               << Ev("getOwnerAccount", pc, FALSE, r, <<>>),
                  IF target = "crashed"
                  THEN Ev("console.error", pc, TRUE, UnexpectedMsg, <<"", r>>)
                  ELSE Ev("console.error", pc, TRUE, OwnerWarnMsg, <<r>>) >>
  /\ UNCHANGED <<programUser, isFirstLogin, isDbConnected, choice,
                 loggedUser, dbOpen, loginSession, accounts, iter>>

\* const {profile, tokens} = await cliLoginFlow.run() (line 105)
retrieveClientOwnerData_login ==
  /\ pc = "recoverLogin"
  /\ \/ \E n \in Nicknames :
          /\ loggedUser' = n
          /\ pc' = OnReturn(pc, choice)
          /\ exitCode' = exitCode
          /\ log' = log \o <<Ev("login.run", pc, TRUE, n, <<>>)>>
     \/ \E r \in Reasons :
          /\ loggedUser' = loggedUser
          /\ Throw(Ev("login.run", pc, FALSE, r, <<>>), "", r)
  /\ UNCHANGED <<programUser, clientOwnerData, isFirstLogin, isDbConnected,
                 choice, dbOpen, loginSession, accounts, iter>>

\* await registerAccount({profile, tokens}) (line 106)
retrieveClientOwnerData_register ==
  /\ pc = "recoverRegister"
  /\ RegisterAccountCall
  /\ UNCHANGED <<programUser, clientOwnerData, isFirstLogin, isDbConnected,
                 choice, loggedUser, dbOpen, loginSession, iter>>

\* ownerAccount = await getOwnerAccount() (lines 107, 111)
retrieveClientOwnerData_second ==
  /\ pc = "resolve2"
  /\ \/ \E v \in OwnerVals :
          /\ clientOwnerData' = v
          /\ pc' = OnReturn(pc, choice)
          /\ exitCode' = exitCode
          /\ log' = log \o <<Ev("getOwnerAccount", pc, TRUE, v, <<>>)>>
     \/ \E r \in OwnerReasons :
          /\ clientOwnerData' = clientOwnerData
          /\ Throw(Ev("getOwnerAccount", pc, FALSE, r, <<>>), "", r)
  /\ UNCHANGED <<programUser, isFirstLogin, isDbConnected, choice,
                 loggedUser, dbOpen, loginSession, accounts, iter>>

\* ---------------------------------------------------------------- the loop
\* Account.findAnyAuthorized(): some authorized account record exists.
FindAnyAuthorized(store) == store # {}

\* const isFirstLogin = !clientOwnerData && !(await
\* Account.findAnyAuthorized()) (line 139); the query is issued only when
\* clientOwnerData is falsy.
main_isFirstLogin ==
  /\ pc = "firstLogin"
  /\ isFirstLogin' = (clientOwnerData = Null /\ ~FindAnyAuthorized(accounts))
  /\ log' = log \o
       (IF clientOwnerData = Null
        THEN <<Ev("findAnyAuthorized", pc, TRUE, Null, <<>>)>>
        ELSE <<>>) \o
       <<Ev("isFirstLogin", pc, TRUE, Null, <<isFirstLogin'>>)>>
  /\ pc' = "probe"
  /\ UNCHANGED <<programUser, clientOwnerData, isDbConnected, choice,
                 loggedUser, dbOpen, loginSession, accounts, iter, exitCode>>

\* The connection to the backing store is lost while the program runs.  The
\* program sees the store's liveness only through db.isConnected(), so a
\* loss is taken right before a probe; it is taken after a menu has been
\* presented, so that a run holds both answers of the probe.
db_connectionLost ==
  /\ pc = "probe"
  /\ iter >= 1
  /\ dbOpen
  /\ dbOpen' = FALSE
  /\ UNCHANGED <<pc, programUser, clientOwnerData, isFirstLogin,
                 isDbConnected, choice, loggedUser, loginSession, accounts,
                 iter, exitCode, log>>

\* main_isConnected with the probe's answer not taken: the flag keeps the
\* value it had.
main_isConnected_Stale ==
  /\ pc = "probe"
  /\ isDbConnected' = isDbConnected
  /\ log' = log \o <<Ev("db.isConnected", pc, TRUE, Null, <<dbOpen>>)>>
  /\ pc' = "prompt"
  /\ UNCHANGED <<programUser, clientOwnerData, isFirstLogin, choice,
                 loggedUser, dbOpen, loginSession, accounts, iter, exitCode>>

\* const isDbConnected = await db.isConnected() (line 143); the entry
\* records what the store answered.
main_isConnected ==
  /\ pc = "probe"
  /\ isDbConnected' = dbOpen
  /\ log' = log \o <<Ev("db.isConnected", pc, TRUE, Null, <<dbOpen>>)>>
  /\ pc' = "prompt"
  /\ UNCHANGED <<programUser, clientOwnerData, isFirstLogin, choice,
                 loggedUser, dbOpen, loginSession, accounts, iter, exitCode>>

\* choice = await prompt({isDbConnected, isFirstLogin}) (line 144)
main_prompt ==
  /\ pc = "prompt"
  /\ iter < MaxIter
  /\ \E tag \in Tags :
       /\ choice' = tag
       /\ log' = log \o
            <<Ev("prompt", pc, TRUE, tag, <<isDbConnected, isFirstLogin>>)>>
  /\ iter' = iter + 1
  /\ pc' = "dispatch"
  /\ UNCHANGED <<programUser, clientOwnerData, isFirstLogin, isDbConnected,
                 loggedUser, dbOpen, loginSession, accounts, exitCode>>

\* lines 145-150 up to the first await of the selected function:
\* an undefined lookup is reported and the iteration ends by continue;
\* options.exit prints Bye; the account handlers print their banner and
\* issue their first call; Object.prototype.toString is called and returns;
\* Object.prototype.hasOwnProperty, called without a receiver, throws a
\* TypeError that nothing inside main catches.
main_dispatch ==
  /\ pc = "dispatch"
  /\ CASE Lookup(choice) = "undefined" ->
            /\ pc' = AfterAction(choice)
            /\ exitCode' = exitCode
            /\ log' = log \o <<Ev("console.error", pc, TRUE,
                                  "Selected option is not valid: ", <<choice>>)>>
       [] Lookup(choice) = "handler" /\ choice = "newTestAccount" ->
            /\ pc' = "genTest"
            /\ exitCode' = exitCode
            /\ log' = log \o <<Ev("console.log", pc, TRUE,
                                  "Creating test account...", <<>>)>>
       [] Lookup(choice) = "handler" /\ choice = "existingAccount" ->
            /\ pc' = "hLogin"
            /\ exitCode' = exitCode
            /\ log' = log \o <<Ev("console.log", pc, TRUE,
                                  "Please log in with an existing account.", <<>>)>>
       [] Lookup(choice) = "handler" /\ choice = "exit" ->
            /\ pc' = AfterAction(choice)
            /\ exitCode' = exitCode
            /\ log' = log \o <<Ev("console.log", pc, TRUE, "Bye!", <<>>)>>
       [] Lookup(choice) = "inherited" /\ choice = "toString" ->
            /\ pc' = AfterAction(choice)
            /\ exitCode' = exitCode
            /\ log' = log \o <<Ev("inherited", pc, TRUE, choice, <<>>)>>
       [] Lookup(choice) = "inherited" /\ choice = "hasOwnProperty" ->
            Throw(Ev("inherited", pc, FALSE, choice, <<>>), "TypeError", choice)
  /\ UNCHANGED <<programUser, clientOwnerData, isFirstLogin, isDbConnected,
                 choice, loggedUser, dbOpen, loginSession, accounts, iter>>

\* generateTestAccount (lines 41-50), awaited at line 67
generateTestAccount ==
  /\ pc = "genTest"
  /\ \/ /\ pc' = OnReturn(pc, choice)
        /\ exitCode' = exitCode
        /\ log' = log \o
             << Ev("createMeliTestAccount", pc, TRUE, Null, <<"devAccountNickname">>),
                Ev("console.log", pc, TRUE, "Test account is: ", <<>>) >>
     \/ \E r \in Reasons :
          Throw(Ev("createMeliTestAccount", pc, FALSE, r, <<"devAccountNickname">>),
                TestAccountFailMsg, r)
  /\ UNCHANGED <<programUser, clientOwnerData, isFirstLogin, isDbConnected,
                 choice, loggedUser, dbOpen, loginSession, accounts, iter>>

\* doLoginFlow (lines 30-39), awaited at lines 68 and 77
doLoginFlow ==
  /\ pc = "hLogin"
  /\ \/ \E n \in Nicknames :
          /\ loggedUser' = n
          /\ pc' = OnReturn(pc, choice)
          /\ exitCode' = exitCode
          /\ log' = log \o << Ev("login.run", pc, TRUE, n, <<>>),
                             Ev("console.log", pc, TRUE, "Logged in!", <<>>) >>
     \/ \E r \in Reasons :
          /\ loggedUser' = loggedUser
          /\ Throw(Ev("login.run", pc, FALSE, r, <<>>), LoginFailMsg, r)
  /\ UNCHANGED <<programUser, clientOwnerData, isFirstLogin, isDbConnected,
                 choice, dbOpen, loginSession, accounts, iter>>

\* registerAccount with the cached owner data dropped by the registration.
registerAccount_Refetching ==
  /\ pc = "hRegister"
  /\ RegisterAccountCall
  /\ clientOwnerData' \in (IF log'[Len(log') - 1].ok THEN OwnerVals ELSE {clientOwnerData})
  /\ UNCHANGED <<programUser, isFirstLogin, isDbConnected,
                 choice, loggedUser, dbOpen, loginSession, iter>>

\* registerAccount dropping the owner data after a registration.
registerAccount_Invalidating ==
  /\ pc = "hRegister"
  /\ RegisterAccountCall
  /\ clientOwnerData' = IF log'[Len(log') - 1].ok THEN Null ELSE clientOwnerData
  /\ UNCHANGED <<programUser, isFirstLogin, isDbConnected,
                 choice, loggedUser, dbOpen, loginSession, iter>>

\* registerAccount(loggedUser), awaited at lines 69 and 78
registerAccount ==
  /\ pc = "hRegister"
  /\ RegisterAccountCall
  /\ UNCHANGED <<programUser, clientOwnerData, isFirstLogin, isDbConnected,
                 choice, loggedUser, dbOpen, loginSession, iter>>

\* ----------------------------------------------------------------- shutdown
\* await cliLoginFlow.clean() (line 132)
exit_clean ==
  /\ pc = "clean"
  /\ \/ /\ loginSession' = "cleaned"
        /\ pc' = OnReturn(pc, choice)
        /\ exitCode' = exitCode
        /\ log' = log \o <<Ev("login.clean", pc, TRUE, Null, <<>>)>>
     \/ \E r \in Reasons :
          /\ loginSession' = loginSession
          /\ Throw(Ev("login.clean", pc, FALSE, r, <<>>), "", r)
  /\ UNCHANGED <<programUser, clientOwnerData, isFirstLogin, isDbConnected,
                 choice, loggedUser, dbOpen, accounts, iter>>

\* await db.disconnect() (line 133); main then returns and the process ends
exit_disconnect ==
  /\ pc = "disconnect"
  /\ \/ /\ dbOpen' = FALSE
        /\ pc' = OnReturn(pc, choice)
        /\ exitCode' = ExitOk
        /\ log' = log \o <<Ev("db.disconnect", pc, TRUE, Null, <<>>)>>
     \/ \E r \in Reasons :
          /\ dbOpen' = dbOpen
          /\ Throw(Ev("db.disconnect", pc, FALSE, r, <<>>), "", r)
  /\ UNCHANGED <<programUser, clientOwnerData, isFirstLogin, isDbConnected,
                 choice, loggedUser, loginSession, accounts, iter>>

Next ==
  \/ ParseArgs
  \/ setup_dbConnect
  \/ setup_cliLoginFlowSetup
  \/ retrieveClientOwnerData_first
  \/ retrieveClientOwnerData_login
  \/ retrieveClientOwnerData_register
  \/ retrieveClientOwnerData_second
  \/ main_isFirstLogin
  \/ main_isConnected
  \/ db_connectionLost
  \/ main_prompt
  \/ main_dispatch
  \/ generateTestAccount
  \/ doLoginFlow
  \/ registerAccount
  \/ exit_clean
  \/ exit_disconnect

Spec == Init /\ [][Next]_vars

\* ------------------------------------------------------- reading the history
Max(S) == CHOOSE x \in S : \A y \in S : y <= x
Min(S) == CHOOSE x \in S : \A y \in S : x <= y

\* indices of the calls of collaborator operation op
CallsOf(op) == {i \in DOMAIN log : log[i].op = op}
\* the getOwnerAccount() calls of the run, in order
ResolverCalls == SelectSeq(log, LAMBDA e : e.op = "getOwnerAccount")
\* calls of op issued by setup() and retrieveClientOwnerData
SetupCallsOf(op) == {i \in CallsOf(op) : log[i].at \in SetupPositions}

\* index of the menu presentation that precedes entry i (0: none, entry i
\* belongs to startup)
PromptBefore(i) ==
  LET P == {j \in CallsOf("prompt") : j < i} IN IF P = {} THEN 0 ELSE Max(P)
\* the menu action entry i belongs to
ActionOf(i) == IF PromptBefore(i) = 0 THEN "setup" ELSE log[PromptBefore(i)].val
\* the entries of the action invocation in progress (or just ended)
CurrentSegment == (PromptBefore(Len(log) + 1) + 1) .. Len(log)

\* an error reached the top-level catch from setup()
SetupFailed ==
  \E i \in DOMAIN log :
    /\ log[i].op = "console.error"
    /\ log[i].val = UnexpectedMsg
    /\ log[i].at \in SetupPositions
\* setup() has returned normally
SetupReturned == pc \notin (SetupPositions \cup {"start", "exited"}) /\ ~SetupFailed

\* ------------------------------------------------------------------- claims

\* C1: when the first getOwnerAccount() rejects and the second resolves,
\* retrieveClientOwnerData has run the login flow exactly once and
\* registered exactly once, has returned normally, and clientOwnerData is
\* the value of the second call.
C1_RecoverOnceThenSucceed ==
  LET rc == ResolverCalls IN
  (Len(rc) = 2 /\ ~rc[1].ok /\ rc[2].ok) =>
     LET logins == SetupCallsOf("login.run")
         registers == SetupCallsOf("register")
     IN
     /\ Cardinality(logins) = 1
     /\ Cardinality(registers) = 1
     /\ \A i \in logins \cup registers : log[i].ok
     /\ SetupReturned
     /\ clientOwnerData = rc[2].val

\* the recovery has succeeded and the menu loop has been entered
C1_Witness ==
  /\ Len(ResolverCalls) = 2 /\ ~ResolverCalls[1].ok /\ ResolverCalls[2].ok
  /\ clientOwnerData = "owner2"
  /\ pc = "prompt"

\* C2: getOwnerAccount() is called at most twice in a run; when both calls
\* reject, the error reaches the top-level catch (the process fails with
\* status 1), clientOwnerData is still null and no menu was presented.
C2_SecondFailureIsFatal ==
  LET rc == ResolverCalls IN
  /\ Len(rc) <= 2
  /\ (Len(rc) = 2 /\ ~rc[1].ok /\ ~rc[2].ok) =>
        /\ pc = "crashed"
        /\ exitCode = ExitError
        /\ SetupFailed
        /\ clientOwnerData = Null
        /\ CallsOf("prompt") = {}

C2_Witness ==
  /\ Len(ResolverCalls) = 2 /\ ~ResolverCalls[1].ok /\ ~ResolverCalls[2].ok
  /\ pc = "crashed"

\* C4: within one newTestAccount invocation, once createMeliTestAccount
\* has rejected neither the login flow nor Account.register is called, and
\* once the login flow has rejected Account.register is not called.
C4_FailureAbortsRemainingSteps ==
  choice = "newTestAccount" =>
    LET seg == CurrentSegment IN
    /\ (\E i \in seg : log[i].op = "createMeliTestAccount" /\ ~log[i].ok)
         => \A j \in seg : log[j].op \notin {"login.run", "register"}
    /\ (\E i \in seg : log[i].op = "login.run" /\ ~log[i].ok)
         => \A j \in seg : log[j].op # "register"

\* one invocation ended by a failed provisioning, a later one by a failed
\* login
C4_Witness ==
  /\ choice = "newTestAccount"
  /\ pc = "probe"
  /\ \E i \in CurrentSegment : log[i].op = "login.run" /\ ~log[i].ok
  /\ \E i \in DOMAIN log \ CurrentSegment :
       log[i].op = "createMeliTestAccount" /\ ~log[i].ok

\* C3 (as claimed): whenever the process has ended, cliLoginFlow.clean()
\* has been called if cliLoginFlow.setup() had resolved and db.disconnect()
\* has been called if db.connect() had resolved; in particular a rejected
\* clean() is still followed by disconnect().
C3_ReleasedOnEveryExitPath ==
  pc \in {"done", "crashed"} =>
    /\ (\E i \in CallsOf("login.setup") : log[i].ok) => CallsOf("login.clean") # {}
    /\ (\E i \in CallsOf("db.connect") : log[i].ok) => CallsOf("db.disconnect") # {}

\* the register calls of the run
RegisterCalls == CallsOf("register")
\* a register request carries a test-account flag
HasTestFlag(args) == Len(args) > 2

\* C5 (as claimed): the register request of newTestAccount carries the
\* test-account flag and the requests of existingAccount and of the
\* recovery do not.
C5_TestFlagDistinguishesNewTestAccount ==
  \A i \in RegisterCalls :
    HasTestFlag(log[i].args) <=> ActionOf(i) = "newTestAccount"

\* C5 (amended): on all three paths Account.register is called with exactly
\* (profile, tokens): no request carries a test-account flag, so the
\* request of newTestAccount has the same shape as the other two.
C5_NoPathPassesTestFlag ==
  \A i \in RegisterCalls :
    /\ ~HasTestFlag(log[i].args)
    /\ Len(log[i].args) = 2
    /\ log[i].args[1] \in Nicknames
    /\ log[i].args[2] = Tokens

\* the recovery, newTestAccount and existingAccount have each registered
C5_Witness ==
  /\ \E i \in RegisterCalls : ActionOf(i) = "setup" /\ log[i].ok
  /\ \E i \in RegisterCalls : ActionOf(i) = "newTestAccount" /\ log[i].ok
  /\ \E i \in RegisterCalls : ActionOf(i) = "existingAccount" /\ log[i].ok

\* index of the last successful registration (0: none)
LastRegistration ==
  LET R == {i \in RegisterCalls : log[i].ok} IN IF R = {} THEN 0 ELSE Max(R)
\* the successful getOwnerAccount() calls
Resolved == {i \in CallsOf("getOwnerAccount") : log[i].ok}

\* C6 (as claimed): clientOwnerData is non-null exactly when a
\* getOwnerAccount() call has resolved since the last registration.
C6_OwnerDataFreshSinceRegistration ==
  (clientOwnerData # Null) <=> (\E i \in Resolved : i > LastRegistration)

\* C6 (amended): clientOwnerData is always what the last resolved
\* getOwnerAccount() call of the run exposed, null when none has resolved;
\* a registration by a menu action neither invalidates nor re-fetches it.
C6_OwnerDataIsLastResolved ==
  clientOwnerData = IF Resolved = {} THEN Null ELSE log[Max(Resolved)].val

\* a menu action has registered after the owner data was resolved
C6_Witness ==
  /\ clientOwnerData # Null
  /\ \E i \in RegisterCalls : log[i].ok /\ log[i].at = "hRegister"
  /\ pc = "probe"

\* positions of the menu loop
LoopPositions == {"probe", "prompt", "dispatch"} \cup HandlerPositions

\* C7: a menu is presented only after db.connect(), cliLoginFlow.setup()
\* and a getOwnerAccount() call have resolved, in this order; when setup()
\* fails the process ends with status 1 and nothing of the loop has run.
C7_MenuOnlyAfterSetup ==
  /\ LET prompts == CallsOf("prompt") IN
     prompts # {} =>
       \E i \in CallsOf("db.connect"), j \in CallsOf("login.setup"), k \in Resolved :
         /\ i < j /\ j < k /\ \A p \in prompts : k < p
         /\ log[i].ok /\ log[j].ok
  /\ pc \in LoopPositions => SetupReturned /\ clientOwnerData # Null
  /\ SetupFailed =>
       /\ pc = "crashed" /\ exitCode = ExitError
       /\ \A i \in DOMAIN log : log[i].at \notin LoopPositions

\* retrieveClientOwnerData ended fatally
C7_Witness ==
  /\ SetupFailed
  /\ Len(ResolverCalls) = 2
  /\ pc = "crashed"

\* the rejected collaborator calls of the account handlers
HandlerFailures == {i \in DOMAIN log : log[i].at \in HandlerPositions /\ ~log[i].ok}

\* C8: a collaborator call that rejects inside newTestAccount or
\* existingAccount is reported by the handler itself, the process keeps
\* running, and what follows is the next iteration: db.isConnected(), then
\* the menu.
C8_HandlerFailureKeepsSession ==
  \A i \in HandlerFailures :
    /\ log[i + 1].op = "console.error"
    /\ log[i + 1].val \in {LoginFailMsg, TestAccountFailMsg, RegisterFailMsg}
    /\ Len(log) = i + 1 => pc = "probe" /\ exitCode = Null
    /\ Len(log) > i + 1 => log[i + 2].op = "db.isConnected"
    /\ Len(log) > i + 2 => log[i + 3].op = "prompt"

\* a handler has failed and the next menu has been presented
C8_Witness ==
  \E i \in HandlerFailures : \E j \in CallsOf("prompt") : j > i

\* the collaborators an action may call
Collaborators == {"createMeliTestAccount", "login.run", "register", "getOwnerAccount"}

\* C9 (as claimed): a choice whose tag is none of the three handlers is
\* reported as not valid, nothing is called, the process keeps running and
\* the next iteration follows.
C9_UnmappedTagIsReported ==
  \A i \in CallsOf("prompt") :
    (log[i].val \notin OwnHandlers /\ Len(log) > i) =>
       /\ log[i + 1].op = "console.error"
       /\ log[i + 1].val = "Selected option is not valid: "
       /\ Len(log) = i + 1 => pc = "probe" /\ exitCode = Null

\* the loop is over: exit() was reached, or an error left main from inside
\* the loop
LoopEnded ==
  \/ pc \in {"clean", "disconnect", "done"}
  \/ /\ pc = "crashed"
     /\ log[Len(log)].at \in LoopPositions \cup {"clean", "disconnect"}

\* C10 (as claimed): the loop ends in the iteration that chose exit and in
\* no other, and the exit handler calls no collaborator.
C10_LoopEndsExactlyOnExit ==
  /\ LoopEnded => choice = "exit"
  /\ (choice = "exit" /\ pc # "dispatch") => LoopEnded
  /\ choice = "exit" =>
       \A i \in CurrentSegment : log[i].op \notin Collaborators

\* the operations of the collaborators and of the prompt
ExternalOps == Collaborators \cup
  {"db.connect", "db.disconnect", "db.isConnected", "login.setup",
   "login.clean", "findAnyAuthorized", "prompt"}

FirstLoginEvals == CallsOf("isFirstLogin")

\* C12 (as claimed): each menu is given flags evaluated in its own
\* iteration: a db.isConnected() answer and a first-login evaluation both
\* lie between the previous menu and this one.
C12_BothFlagsEvaluatedEachIteration ==
  \A i \in CallsOf("prompt") :
    /\ \E j \in CallsOf("db.isConnected") :
         /\ PromptBefore(i) < j /\ j < i
         /\ log[i].args[1] = log[j].args[1]
    /\ \E j \in FirstLoginEvals :
         /\ PromptBefore(i) < j /\ j < i
         /\ log[i].args[2] = log[j].args[1]

\* C12 (amended): each menu is given the answer of the db.isConnected()
\* call made right before it, which is the store's liveness at that call;
\* the first-login flag is evaluated once, before the first menu, and every
\* menu is given that one value.
C12_ProbeEachIterationFirstLoginOnce ==
  LET prompts == CallsOf("prompt")
      evals == FirstLoginEvals
  IN
  /\ Cardinality(evals) <= 1
  /\ \A i \in prompts :
       /\ log[i - 1].op = "db.isConnected"
       /\ log[i].args[1] = log[i - 1].args[1]
       /\ \E j \in evals :
            /\ \A k \in prompts : j < k
            /\ log[i].args[2] = log[j].args[1]

\* a second menu, after a registration and a lost connection, is given a
\* different isDbConnected than the first
C12_Witness ==
  \E i, j \in CallsOf("prompt") :
    /\ i < j
    /\ log[i].args[1] /\ ~log[j].args[1]
    /\ \E k \in RegisterCalls : i < k /\ k < j /\ log[k].ok

\* the rejected first getOwnerAccount() call
FirstResolveFailures ==
  {i \in CallsOf("getOwnerAccount") : log[i].at = "resolve1" /\ ~log[i].ok}
\* the warnings of retrieveClientOwnerData
OwnerWarnings ==
  {i \in CallsOf("console.error") :
     log[i].val = "Could not retrieve client owner account data. Reason: "}

\* C13: after the first getOwnerAccount() rejected with reason r, the
\* history continues, in this order and once each, with the warning
\* carrying r, cliLoginFlow.run(), Account.register of the logged-in
\* profile without a test-account flag, and the second getOwnerAccount();
\* when that one resolves clientOwnerData is set and setup() has returned.
C13_RecoveryOrder ==
  LET n == Len(log) IN
  /\ Cardinality(OwnerWarnings) <= 1
  /\ Cardinality(SetupCallsOf("login.run")) <= 1
  /\ Cardinality(SetupCallsOf("register")) <= 1
  /\ OwnerWarnings # {} => FirstResolveFailures # {}
  /\ \A i \in FirstResolveFailures :
       /\ i + 1 \in OwnerWarnings
       /\ log[i + 1].args = <<log[i].val>>
       /\ n >= i + 2 =>
            /\ log[i + 2].op = "login.run"
            /\ log[i + 2].at = "recoverLogin"
       /\ (n >= i + 3 /\ log[i + 2].ok) =>
            /\ log[i + 3].op = "register"
            /\ ~HasTestFlag(log[i + 3].args)
            /\ log[i + 3].args[1] = log[i + 2].val
       /\ (n >= i + 5 /\ log[i + 2].ok /\ log[i + 3].ok) =>
            /\ log[i + 5].op = "getOwnerAccount"
            /\ log[i + 5].at = "resolve2"
            /\ log[i + 5].ok =>
                 /\ clientOwnerData = log[i + 5].val
                 /\ SetupReturned

\* the recovery after a 'timeout' has completed
C13_Witness ==
  /\ \E i \in FirstResolveFailures :
       /\ log[i].val = "timeout"
       /\ Len(log) >= i + 5
       /\ log[i + 5].op = "getOwnerAccount" /\ log[i + 5].ok
  /\ pc = "firstLogin"
  /\ clientOwnerData # Null

\* the register calls that resolved
Registered == {i \in RegisterCalls : log[i].ok}

\* C14: a registration of a nickname that has no record is confirmed as
\* 'Registered new' and leaves a record, a registration of a nickname that
\* has one is confirmed as 'Updated existing', and records are never
\* removed; so of two registrations of one nickname the second is
\* confirmed as 'Updated existing'.
C14_RegistrationIdempotence ==
  /\ [](LET reg == Registered IN
        \A i, j \in reg :
          (i < j /\ log[i].val = log[j].val) => log[j + 1].val = "Updated existing")
  /\ [][LET n == Len(log) IN
        /\ accounts \subseteq accounts'
        /\ (Len(log') = n + 2 /\ log'[n + 1].op = "register" /\ log'[n + 1].ok) =>
             /\ log'[n + 2].op = "console.log"
             /\ log'[n + 2].val = IF log'[n + 1].val \in accounts
                                  THEN "Updated existing" ELSE "Registered new"
             /\ log'[n + 1].val \in accounts']_vars

\* one nickname registered twice in a row: new, then existing
C14_Witness ==
  \E i, j \in Registered :
    /\ i < j
    /\ log[i].val = log[j].val
    /\ \A k \in Registered : ~(i < k /\ k < j)
    /\ log[i + 1].val = "Registered new"
    /\ log[j + 1].val = "Updated existing"

\* C15: when the first getOwnerAccount() resolves, its clientOwnerData is
\* stored, setup() returns, getOwnerAccount() is not called again, and
\* retrieveClientOwnerData calls neither the login flow nor
\* Account.register; the recovery is entered only after the first call
\* rejected.
C15_FirstSuccessNoRecovery ==
  LET rc == ResolverCalls IN
  /\ (Len(rc) >= 1 /\ rc[1].ok) =>
       /\ Len(rc) = 1
       /\ SetupCallsOf("login.run") = {}
       /\ SetupCallsOf("register") = {}
       /\ clientOwnerData = rc[1].val
       /\ SetupReturned
  /\ pc \in {"recoverLogin", "recoverRegister", "resolve2"} =>
       Len(rc) >= 1 /\ ~rc[1].ok

C15_Witness ==
  /\ Len(ResolverCalls) = 1 /\ ResolverCalls[1].ok
  /\ clientOwnerData = "owner2"
  /\ pc = "prompt"

\* C16: when the recovery's cliLoginFlow.run() or its registration
\* rejects, the second getOwnerAccount() is never called, clientOwnerData
\* stays null, nothing is registered after a rejected login, and the error
\* leaves setup(): the process ends with status 1 and no menu is presented.
C16_RecoveryFailureIsFatal ==
  LET badLogin == \E i \in SetupCallsOf("login.run") : ~log[i].ok
      badRegister == \E i \in SetupCallsOf("register") : ~log[i].ok
  IN
  (badLogin \/ badRegister) =>
     /\ Len(ResolverCalls) = 1
     /\ clientOwnerData = Null
     /\ pc = "crashed" /\ exitCode = ExitError
     /\ SetupFailed
     /\ CallsOf("prompt") = {}
     /\ badLogin => SetupCallsOf("register") = {}

\* the recovery's registration was rejected
C16_Witness ==
  /\ \E i \in SetupCallsOf("register") : ~log[i].ok
  /\ \E i \in SetupCallsOf("login.run") : log[i].ok
  /\ pc = "crashed"

\* the collaborator calls a handler makes
CallsAllowed(tag) ==
  CASE tag = "newTestAccount" -> {"createMeliTestAccount", "login.run", "register"}
    [] tag = "existingAccount" -> {"login.run", "register"}
    [] OTHER -> {}

\* C17: one action at a time, run to completion: a handler position is
\* reached only under the tag of its handler, and when a menu is presented
\* the calls made since the previous menu are those of the action chosen
\* there and end with that action's last step, a rejected call or the
\* registration.
C17_ActionCompletesBeforeNextMenu ==
  /\ pc \in HandlerPositions => choice \in {"newTestAccount", "existingAccount"}
  /\ pc = "genTest" => choice = "newTestAccount"
  /\ \A p \in CallsOf("prompt") :
       LET q == PromptBefore(p)
           calls == {i \in (q + 1) .. (p - 1) : log[i].op \in Collaborators}
       IN
       q > 0 =>
         /\ \A i \in calls : log[i].op \in CallsAllowed(log[q].val)
         /\ CallsAllowed(log[q].val) # {} =>
              /\ calls # {}
              /\ ~log[Max(calls)].ok \/ log[Max(calls)].op = "register"

\* a second menu follows a newTestAccount that went through all its steps
C17_Witness ==
  \E p \in CallsOf("prompt") :
    /\ PromptBefore(p) > 0
    /\ log[PromptBefore(p)].val = "newTestAccount"
    /\ \E i \in RegisterCalls : PromptBefore(p) < i /\ i < p /\ log[i].ok

\* C18: a rejected step of a handler is reported with the message of its
\* own stage and the reason, and within one invocation each of
\* createMeliTestAccount, cliLoginFlow.run and Account.register is called
\* at most once.
C18_StageMessagesNoRetry ==
  /\ \A i \in HandlerFailures :
       /\ log[i + 1].op = "console.error"
       /\ log[i + 1].args = <<log[i].val>>
       /\ log[i + 1].val =
            CASE log[i].op = "createMeliTestAccount" ->
                   "Whoops, could not create a test account: "
              [] log[i].op = "login.run" ->
                   "Could not complete authentication. Reason: "
              [] log[i].op = "register" ->
                   "Problem registering account: "
  /\ LET seg == CurrentSegment IN
     \A op \in {"createMeliTestAccount", "login.run", "register"} :
       Cardinality({i \in seg : log[i].op = op}) <= 1

\* one invocation failed at the creation of the test account, another at
\* the registration
C18_Witness ==
  /\ \E i \in HandlerFailures : log[i].op = "createMeliTestAccount"
  /\ \E i \in HandlerFailures : log[i].op = "register" /\ ActionOf(i) = "newTestAccount"

\* C19 (as claimed): once exit is chosen the process shuts down by
\* cleaning the login session first and closing the store connection
\* second, and neither release call is issued before exit is chosen.
C19_ExitReleasesSessionThenStore ==
  /\ \A i \in CallsOf("login.clean") \cup CallsOf("db.disconnect") :
       ActionOf(i) = "exit"
  /\ \A d \in CallsOf("db.disconnect") :
       \E c \in CallsOf("login.clean") : c < d /\ log[c].ok
  /\ (choice = "exit" /\ pc \in {"done", "crashed"}) =>
       /\ \E c \in CallsOf("login.clean") : log[c].ok
       /\ CallsOf("db.disconnect") # {}

\* the positions of main after setup() has returned (lines 139-153)
AfterSetupPositions == {"firstLogin", "clean", "disconnect"} \cup LoopPositions

\* C20: once setup() has returned, no step changes clientOwnerData or the
\* program user, and none calls getOwnerAccount again.
C20_OwnerDataFixedAfterSetup ==
  [][(pc \in AfterSetupPositions) =>
       (/\ clientOwnerData' = clientOwnerData
        /\ programUser' = programUser
        /\ \A i \in (Len(log) + 1) .. Len(log') :
             log'[i].op # "getOwnerAccount")]_vars

\* back at the top of the loop after one action registered an account and
\* another one failed, with the owner data of the setup still in place
C20_Witness ==
  /\ pc = "probe"
  /\ clientOwnerData # Null
  /\ \E i \in Registered : log[i].at = "hRegister"
  /\ HandlerFailures # {}

====
